---- MODULE Spec2Model ----
(***************************************************************************)
(* The live game session engine of the chess server: the socket handlers   *)
(* of chessHandler.ts (joinGame, makeMove, resign, offerDraw, acceptDraw,  *)
(* leaveGame, disconnect), the Game document they read and save, the       *)
(* account counters they increment and the REST call that creates a game.  *)
(*                                                                         *)
(* Every handler is an async function.  It runs synchronously up to its    *)
(* next `await`, and the database operation it awaits takes effect         *)
(* atomically at the database.  One action of this model is therefore the  *)
(* synchronous code after one await together with the effect of the next   *)
(* awaited database operation; handlers of different events interleave     *)
(* between those actions, as they do on the Node.js event loop.            *)
(*                                                                         *)
(* game.save() is Mongoose's save of a loaded document: it writes the      *)
(* paths the handler modified ($set) and appends what was pushed to an     *)
(* array ($push), and leaves every other stored path as it is.  A handler  *)
(* in flight is therefore recorded by the part of the loaded document it   *)
(* goes on to read, then by the writes and emits it still has to make.     *)
(***************************************************************************)
EXTENDS Integers, Sequences, FiniteSets, TLC

\* ------------------------------------------------------------------ bounds
\* Handlers that may be in flight (between two awaits) at the same time.
MaxTasks == 2
\* Moves a session may store; makeMove events stop arriving beyond it.
MaxMoves == 3
\* Seconds the wall clock may advance.
MaxTime == 2
\* Socket events the model follows from the start.
MaxEvents == 4
\* getBestMove calls made on one hook directly.
MaxCalls == 3

\* ------------------------------------------------------------- vocabulary
\* An optional number or date that is not set (undefined).
Absent == -1
\* An optional reference or string that is not set (null / undefined).
Null == "null"
\* A session without a time control.
NoTimeControl == <<>>

Accounts == {"uA", "uB", "uC"}
Creators == {"uA"}
Sockets == {"sA", "sB", "sC"}
\* Identifiers a client may name; a game exists under one once it is created.
GameIds == {"g1"}
Modes == {"multiplayer", "bot"}
\* Time controls a creator may ask for: <<initial, increment>> in seconds.
TimeControls == {NoTimeControl, <<1, 1>>}
\* What the rule engine answers to a submitted (from, to, promotion) on the
\* position the handler loaded:
\* a legal move that leaves the game open, gives checkmate or ends the game
\* drawn, or an illegal move reported by returning null or by throwing.
Verdicts == {"ok", "mate", "draw", "null", "throw"}
Tokens == {"none", "bad", "good"}
Tasks == 1..MaxTasks

\* The account a socket's token was issued to, and its display name.
\* "sD" is a second connection of alice's account (another tab).
UserOf(s) ==
  CASE s \in {"sA", "sD"} -> "uA" [] s = "sB" -> "uB" [] OTHER -> "uC"
Username(u) == CASE u = "uA" -> "alice" [] u = "uB" -> "bob" [] OTHER -> "carol"

Opposite(c) == IF c = "white" THEN "black" ELSE "white"
Max(a, b) == IF a >= b THEN a ELSE b

VARIABLES
  games,      \* the Game collection: gameId -> stored document
  users,      \* the User collection: account -> [gamesPlayed, gamesWon]
  connected,  \* sockets that passed the handshake and are connected
  rooms,      \* socket -> rooms (gameIds) it has joined
  tasks,      \* handler invocations in flight
  wire,       \* the events emitted by the last step
  accepted,   \* gameId -> number of moves accepted (saved) so far
  now,        \* wall clock, in seconds
  invoked,    \* socket events received so far
  boards,     \* the ChessBoard components mounted in browsers
  auth        \* the registered credentials and the last REST auth response

vars == <<games, users, connected, rooms, tasks, wire, accepted, now, invoked,
          boards, auth>>

\* ---------------------------------------------------------------- the rule engine
StartFen == [turn |-> "white", ply |-> 0, over |-> "no"]

\* new Chess(fen).move({from, to, promotion}): TRUE when the move is made.
MoveLegal(fen, verdict) == fen.over = "no" /\ verdict \in {"ok", "mate", "draw"}
\* chess.fen() after the move.
FenAfter(fen, verdict) ==
  [turn |-> Opposite(fen.turn), ply |-> fen.ply + 1,
   over |-> IF verdict = "ok" THEN "no" ELSE verdict]
\* move.san: the notation of the move, abstracted to the side that made it.
SanOf(fen) == fen.turn
IsGameOver(fen) == fen.over # "no"
IsCheckmate(fen) == fen.over = "mate"
\* chess.turn() mapped to a colour name.
TurnOf(fen) == fen.turn

\* ---------------------------------------------------------------- documents
\* A creation that leaves every session waiting.
NewGameAllWaiting(creator, mode, tc, t) ==
  [mode |-> mode,
   whitePlayer |-> creator,
   whitePlayerUsername |-> Username(creator),
   blackPlayer |-> Null,
   blackPlayerUsername |-> IF mode = "bot" THEN "Stockfish" ELSE Null,
   status |-> "waiting",
   result |-> Null,
   fen |-> StartFen,
   pgn |-> <<>>,
   moves |-> <<>>,
   currentTurn |-> "white",
   timeControl |-> tc,
   whiteTime |-> IF tc # NoTimeControl THEN tc[1] * 1000 ELSE Absent,
   blackTime |-> IF tc # NoTimeControl THEN tc[1] * 1000 ELSE Absent,
   lastMoveTime |-> IF mode = "bot" /\ tc # NoTimeControl THEN t ELSE Absent,
   startedAt |-> IF mode = "bot" THEN t ELSE Absent,
   finishedAt |-> Absent]
\* The document POST /api/games/create stores.
NewGame(creator, mode, tc, t) ==
  [mode |-> mode,
   whitePlayer |-> creator,
   whitePlayerUsername |-> Username(creator),
   blackPlayer |-> Null,
   blackPlayerUsername |-> IF mode = "bot" THEN "Stockfish" ELSE Null,
   status |-> IF mode = "bot" THEN "inProgress" ELSE "waiting",
   result |-> Null,
   fen |-> StartFen,
   pgn |-> <<>>,
   moves |-> <<>>,
   currentTurn |-> "white",
   timeControl |-> tc,
   whiteTime |-> IF tc # NoTimeControl THEN tc[1] * 1000 ELSE Absent,
   blackTime |-> IF tc # NoTimeControl THEN tc[1] * 1000 ELSE Absent,
   lastMoveTime |-> IF mode = "bot" /\ tc # NoTimeControl THEN t ELSE Absent,
   startedAt |-> IF mode = "bot" THEN t ELSE Absent,
   finishedAt |-> Absent]

Paths == DOMAIN NewGame("uA", "bot", NoTimeControl, 0)

\* The paths of the loaded document a handler reads or assigns.
Reads(kind) ==
  CASE kind = "joinGame" ->
         Paths \ {"mode", "whitePlayer", "result", "pgn", "finishedAt"}
    [] kind = "makeMove" ->
         {"whitePlayer", "blackPlayer", "status", "result", "fen", "pgn",
          "currentTurn", "timeControl", "whiteTime", "blackTime",
          "lastMoveTime", "finishedAt"}
    [] kind = "resign" ->
         {"whitePlayer", "blackPlayer", "whitePlayerUsername",
          "blackPlayerUsername", "status", "result", "finishedAt"}
    [] kind = "offerDraw" -> {"whitePlayer", "blackPlayer", "status"}
    [] OTHER -> {"whitePlayer", "blackPlayer", "status", "result", "finishedAt"}

\* Game.findOne({gameId}) as the handler sees it: <<>> when there is no such
\* document.
FindOne(gid, kind) ==
  IF gid \in DOMAIN games
    THEN <<[p \in Reads(kind) |-> games[gid][p]]>>
    ELSE <<>>

\* The $set of a save: the paths of the loaded document that the handler's
\* assignments changed.  Assigning a path the value it already has does not
\* mark it modified; a push to the moves array is sent as $push instead.
Delta(loaded, doc) ==
  [p \in {q \in DOMAIN loaded : doc[q] # loaded[q]} |-> doc[p]]
NoDelta == [p \in {} |-> Null]

\* game.save(): $set of the modified paths and $push of the pushed moves,
\* applied to the stored document.
SaveDoc(stored, delta, pushed) ==
  [p \in Paths |->
     IF p = "moves" THEN stored.moves \o pushed
     ELSE IF p \in DOMAIN delta THEN delta[p]
     ELSE stored[p]]

\* User.findByIdAndUpdate(id, {$inc: {gamesPlayed: played, gamesWon: won}}).
IncUser(us, id, played, won) ==
  [us EXCEPT ![id] = [gamesPlayed |-> @.gamesPlayed + played,
                      gamesWon |-> @.gamesWon + won]]

\* ---------------------------------------------------------------- rooms and events
\* io.to(gameId): the connected sockets in the room.
Room(gid) == {s \in connected : gid \in rooms[s]}
\* An emit the handler makes: to the caller (socket.emit), to the room
\* (io.to(gameId).emit) or to the room except the caller (socket.to(gameId).emit).
Emit(ev, scope, body) == [ev |-> ev, scope |-> scope, body |-> body]
ErrorEmitRoom(message) == Emit("error", "room", [message |-> message])
ErrorEmit(message) == Emit("error", "caller", [message |-> message])
\* The event as delivered: the sockets it reaches are resolved when it is emitted.
Deliver(e, s, gid, members) ==
  [ev |-> e.ev, body |-> e.body,
   to |-> CASE e.scope = "caller" -> {s}
            [] e.scope = "room" -> members
            [] OTHER -> members \ {s}]

\* ---------------------------------------------------------------- the browser
\* The ChessBoard components that may be mounted, each on its page's socket:
\* two tabs of alice.
Boards == {"b1", "b2"}
BoardSock(b) == IF b = "b1" THEN "sA" ELSE "sD"
\* GamePage gives the creator, and every visitor of a bot session, white.
PlayerColor == "white"
\* A freshly mounted board of a bot session: white to move, the engine
\* worker created and not yet ready, no search asked for.
\*   inbox     events delivered to the socket, not yet handled by a listener
\*   timers    positions of the setTimeout(makeBotMove, 500) not yet fired
\*   calls     the getBestMove calls made so far, with their promise and timer
\*   engine    the calls whose `go` the worker has not answered yet
\*   outbox    makeMove events emitted, not yet received by the server
\*   ended     times onGameEnd was called
\*   fen       the position the board shows
NewBoard ==
  [ready |-> FALSE, thinking |-> FALSE, turn |-> "white", fen |-> StartFen,
   inbox |-> <<>>,
   timers |-> <<>>, resolveRef |-> 0, calls |-> <<>>, engine |-> <<>>,
   outbox |-> 0, ended |-> 0]
\* No board is mounted: the clients are outside the model.
NoBoards == [b \in {} |-> NewBoard]
\* The events ChessBoard's listeners act on.
Listened == {"gameState", "moveMade", "gameEnded"}

\* The server receives an event of a socket: a makeMove comes off the outbox
\* of the board on that socket.
Sent(bs, s, kind) ==
  [b \in DOMAIN bs |->
     IF BoardSock(b) = s /\ kind = "makeMove" /\ bs[b].outbox > 0
       THEN [bs[b] EXCEPT !.outbox = @ - 1]
       ELSE bs[b]]
\* The events of one step reach the boards whose socket they were sent to (a
\* step emits at most one listened event to a socket).
Heard(bs, events) ==
  [b \in DOMAIN bs |->
     LET mine == {e \in events : BoardSock(b) \in e.to /\ e.ev \in Listened}
     IN IF mine = {} THEN bs[b]
        ELSE [bs[b] EXCEPT !.inbox = Append(@, CHOOSE e \in mine : TRUE)]]

\* ---------------------------------------------------------------- REST authentication
\* No account is registered and no request was answered.
NoAuth == [registered |-> <<>>, request |-> <<>>, response |-> <<>>]

\* `since` is the number of moves the session had accepted when the event
\* arrived.
IdleTask == [kind |-> "idle", pc |-> "idle", sock |-> Null, gid |-> Null,
             since |-> 0, loaded |-> <<>>, delta |-> NoDelta, pushed |-> <<>>,
             todo |-> <<>>, emits |-> {}]
IsIdle(t) == tasks[t].pc = "idle"
\* A new invocation takes the lowest free slot.
FreeSlot(t) == IsIdle(t) /\ \A u \in Tasks : u < t => ~IsIdle(u)

\* The event arrives from a connected socket: the handler starts and awaits
\* Game.findOne.
Invoke(t, kind, s, gid) ==
  /\ FreeSlot(t)
  /\ invoked < MaxEvents
  /\ invoked' = invoked + 1
  /\ s \in connected
  /\ tasks' = [tasks EXCEPT ![t] =
       [IdleTask EXCEPT !.kind = kind, !.pc = "invoked", !.sock = s, !.gid = gid,
                        !.since = accepted[gid]]]
  /\ wire' = {}
  /\ boards' = Sent(boards, s, kind)
  /\ UNCHANGED <<games, users, connected, rooms, accepted, now, auth>>

\* Game.findOne takes effect at the database: the handler's document is the
\* stored one as of now.
Load(t) ==
  /\ tasks[t].pc = "invoked"
  /\ tasks' = [tasks EXCEPT ![t].pc = "loaded",
                            ![t].loaded = FindOne(tasks[t].gid, tasks[t].kind)]
  /\ wire' = {}
  /\ UNCHANGED <<games, users, connected, rooms, accepted, now, invoked, boards, auth>>

\* The handler returns.
Return(t) == [tasks EXCEPT ![t] = IdleTask]

Init ==
  /\ games = <<>>
  /\ users = [u \in Accounts |-> [gamesPlayed |-> 0, gamesWon |-> 0]]
  /\ connected = {}
  /\ rooms = [s \in Sockets |-> {}]
  /\ tasks = [t \in Tasks |-> IdleTask]
  /\ wire = {}
  /\ accepted = [g \in GameIds |-> 0]
  /\ now = 0
  /\ invoked = 0
  /\ boards = NoBoards
  /\ auth = NoAuth

\* ---------------------------------------------------------------- REST and connection
\* POST /api/games/create.
CreateGame(gid, creator, mode, tc) ==
  /\ gid \notin DOMAIN games
  /\ games' = [g \in DOMAIN games \cup {gid} |->
                 IF g = gid THEN NewGame(creator, mode, tc, now) ELSE games[g]]
  /\ wire' = {}
  /\ UNCHANGED <<users, connected, rooms, tasks, accepted, now, invoked, boards, auth>>

\* A handshake that admits every connection.
ConnectAnyToken(s, token) ==
  /\ s \notin connected
  /\ connected' = connected \cup {s}
  /\ wire' = {}
  /\ UNCHANGED <<games, users, rooms, tasks, accepted, now, invoked, boards, auth>>

\* io.use: the handshake middleware.
Connect(s, token) ==
  /\ s \notin connected
  /\ IF token = "good"
       THEN connected' = connected \cup {s} /\ wire' = {}
       ELSE /\ connected' = connected
            /\ wire' = {[ev |-> "connect_error", to |-> {s}, body |->
                   [message |-> IF token = "none" THEN "Authentication error"
                                ELSE "Invalid token"]]}
  /\ UNCHANGED <<games, users, rooms, tasks, accepted, now, invoked, boards, auth>>

\* The transport closes: the socket leaves every room; the handler only logs.
Disconnect(s) ==
  /\ s \in connected
  /\ connected' = connected \ {s}
  /\ rooms' = [rooms EXCEPT ![s] = {}]
  /\ wire' = {}
  /\ UNCHANGED <<games, users, tasks, accepted, now, invoked, boards, auth>>

\* A leaveGame that keeps the socket in the room.
LeaveGameStays(s, gid) ==
  /\ s \in connected
  /\ gid \in rooms[s]
  /\ wire' = {}
  /\ UNCHANGED <<games, users, connected, rooms, tasks, accepted, now, invoked, boards, auth>>

\* socket.on('leaveGame'): socket.leave(gameId).
LeaveGame(s, gid) ==
  /\ s \in connected
  /\ gid \in rooms[s]
  /\ rooms' = [rooms EXCEPT ![s] = @ \ {gid}]
  /\ wire' = {}
  /\ UNCHANGED <<games, users, connected, tasks, accepted, now, invoked, boards, auth>>

\* Wall-clock time passes.
Tick ==
  /\ now < MaxTime
  /\ now' = now + 1
  /\ wire' = {}
  /\ UNCHANGED <<games, users, connected, rooms, tasks, accepted, invoked, boards, auth>>

\* ---------------------------------------------------------------- awaited operations
\* One awaited database operation of a handler: a counter increment of an
\* account or the save of the handler's document.
IncOp(id, played, won) == [op |-> "inc", id |-> id, played |-> played, won |-> won]
SaveOp == [op |-> "save", id |-> Null, played |-> 0, won |-> 0]
\* The increment is issued only for a seat that references an account.
IncIf(id, played, won) == IF id # Null THEN <<IncOp(id, played, won)>> ELSE <<>>

\* The effect of the operation at the database.
DbEffect(op, T) ==
  IF op.op = "inc"
    THEN /\ users' = IncUser(users, op.id, op.played, op.won)
         /\ UNCHANGED <<games, accepted>>
    ELSE /\ games' = [games EXCEPT ![T.gid] = SaveDoc(@, T.delta, T.pushed)]
         /\ accepted' = [accepted EXCEPT ![T.gid] =
                           IF T.kind = "makeMove" THEN @ + 1 ELSE @]
         /\ UNCHANGED users

\* The handler changed its loaded document into `doc` (pushing `pushed`),
\* awaits `ops` one after the other and will then emit `emits`: the first
\* operation takes effect in this step.
Begin(t, doc, pushed, ops, emits) ==
  LET T == [tasks[t] EXCEPT !.pc = "awaiting",
                            !.delta = Delta(tasks[t].loaded[1], doc),
                            !.pushed = pushed,
                            !.todo = Tail(ops),
                            !.emits = emits]
  IN /\ DbEffect(Head(ops), T)
     /\ tasks' = [tasks EXCEPT ![t] = T]
     /\ wire' = {}
     /\ UNCHANGED <<connected, now, invoked, boards, auth>>

\* The handler resumes from an await and awaits its next operation.
Await(t) ==
  /\ tasks[t].pc = "awaiting"
  /\ tasks[t].todo # <<>>
  /\ DbEffect(Head(tasks[t].todo), tasks[t])
  /\ tasks' = [tasks EXCEPT ![t].todo = Tail(@)]
  /\ wire' = {}
  /\ UNCHANGED <<connected, rooms, now, invoked, boards, auth>>

\* The handler emits `emits` to the sockets they reach now, and returns.
Reply(t, emits, rms) ==
  /\ wire' = {Deliver(e, tasks[t].sock, tasks[t].gid,
                      {s \in connected : tasks[t].gid \in rms[s]}) : e \in emits}
  /\ tasks' = Return(t)
  /\ boards' = Heard(boards, wire')
  /\ UNCHANGED <<games, users, connected, accepted, now, invoked, auth>>

\* The handler resumes from its last await and makes its emits.
Finish(t) ==
  /\ tasks[t].pc = "awaiting"
  /\ tasks[t].todo = <<>>
  /\ Reply(t, tasks[t].emits, rooms)
  /\ UNCHANGED rooms

\* ---------------------------------------------------------------- joinGame
GameStateBody(d) ==
  [fen |-> d.fen, moves |-> d.moves, status |-> d.status,
   whitePlayer |-> d.whitePlayerUsername, blackPlayer |-> d.blackPlayerUsername,
   currentTurn |-> d.currentTurn, timeControl |-> d.timeControl,
   whiteTime |-> d.whiteTime, blackTime |-> d.blackTime]
PlayerJoinedBody(s, d) ==
  [username |-> Username(UserOf(s)), status |-> d.status,
   whitePlayer |-> d.whitePlayerUsername, blackPlayer |-> d.blackPlayerUsername]
\* socket.emit('gameState') and io.to(gameId).emit('playerJoined').
JoinEmits(s, d) ==
  {Emit("gameState", "caller", GameStateBody(d)),
   Emit("playerJoined", "room", PlayerJoinedBody(s, d))}

\* The seat fill of joinGame: the assignments made to a waiting document
\* whose black seat is empty.
SeatFill(d, u, t) ==
  LET seated == [d EXCEPT !.blackPlayer = u,
                          !.blackPlayerUsername = Username(u),
                          !.status = "inProgress",
                          !.startedAt = t]
  IN IF d.timeControl # NoTimeControl
       THEN [seated EXCEPT !.whiteTime = d.timeControl[1] * 1000,
                           !.blackTime = d.timeControl[1] * 1000,
                           !.lastMoveTime = t]
       ELSE seated
\* A seat fill guard that ignores the status.
NeedsSeatAnyStatus(d) == d.blackPlayer = Null
NeedsSeat(d) == d.status = "waiting" /\ d.blackPlayer = Null

\* socket.on('joinGame'): the event arrives, the document is read.
JoinGame(t, s, gid) == Invoke(t, "joinGame", s, gid)

\* The schema declares timeControl as a nested path (initial, increment) and
\* not as a subdocument.  Whether a document stored without it reads back as
\* undefined (as the interface IGame declares it) or as an object whose
\* fields are undefined is decided by the ODM and not by this code, so both
\* are followed.  Read as an object, the seat fill computes
\* undefined * 1000 for both budgets, a value the Number paths do not accept,
\* and the save is rejected.
NestedReads == BOOLEAN
SaveRejected(d, nested) == nested /\ d.timeControl = NoTimeControl

\* joinGame after findOne: not found, or join the room and either fill the
\* seat and save, or answer at once.  A rejected save lands in the catch
\* block.
JoinSeat(t, nested) ==
  LET T == tasks[t]
      d == T.loaded[1]
      joined == [rooms EXCEPT ![T.sock] = @ \cup {T.gid}]
      seated == SeatFill(d, UserOf(T.sock), now)
  IN /\ T.kind = "joinGame" /\ T.pc = "loaded"
     /\ IF T.loaded = <<>>
          THEN Reply(t, {ErrorEmit("Game not found")}, rooms) /\ UNCHANGED rooms
        ELSE IF NeedsSeat(d) /\ SaveRejected(d, nested)
          THEN /\ Reply(t, {ErrorEmit("Failed to join game")}, joined)
               /\ rooms' = joined
        ELSE IF NeedsSeat(d)
          THEN /\ Begin(t, seated, <<>>, <<SaveOp>>, JoinEmits(T.sock, seated))
               /\ rooms' = joined
        ELSE /\ Reply(t, JoinEmits(T.sock, d), joined)
             /\ rooms' = joined

\* ---------------------------------------------------------------- makeMove
\* A black-seat test that every caller passes.
IsBlackAnyone(d, s) == TRUE
IsWhite(d, s) == d.whitePlayer = UserOf(s)
IsBlack(d, s) == d.blackPlayer = UserOf(s)
\* A turn check that forgets white's turn.
NotYourTurnBlackOnly(d, s) == d.currentTurn = "black" /\ ~IsBlack(d, s)
\* A turn check that forgets black's turn.
NotYourTurnWhiteOnly(d, s) == d.currentTurn = "white" /\ ~IsWhite(d, s)
\* The turn check: the caller does not hold the seat of the side to move.
NotYourTurn(d, s) ==
  \/ d.currentTurn = "white" /\ ~IsWhite(d, s)
  \/ d.currentTurn = "black" /\ ~IsBlack(d, s)

\* Math.max(0, remaining - elapsed + increment * 1000), in milliseconds.
Remaining(remaining, elapsed, increment) == Max(0, remaining - elapsed + increment * 1000)

\* A clock update that stamps the last-move time whether or not the session
\* has a time control.
ClockUpdateAlways(d, t) == [d EXCEPT !.lastMoveTime = t]
\* The clock update of an accepted move, at wall-clock second t.  A budget
\* that is absent or 0 is falsy and is left alone.
ClockUpdate(d, t) ==
  IF d.timeControl # NoTimeControl /\ d.lastMoveTime # Absent
    THEN LET elapsed == (t - d.lastMoveTime) * 1000
             charged ==
               IF d.currentTurn = "white" /\ d.whiteTime \notin {Absent, 0}
                 THEN [d EXCEPT !.whiteTime = Remaining(@, elapsed, d.timeControl[2])]
               ELSE IF d.currentTurn = "black" /\ d.blackTime \notin {Absent, 0}
                 THEN [d EXCEPT !.blackTime = Remaining(@, elapsed, d.timeControl[2])]
               ELSE d
         IN [charged EXCEPT !.lastMoveTime = t]
    ELSE d

\* A game-end rule that awards checkmate to the mated side.
ResultOfMated(fen) == IF IsCheckmate(fen) THEN TurnOf(fen) ELSE "draw"
\* The result of a move that ended the game: the side that gave checkmate
\* (chess.turn() is then the mated side), a draw otherwise.
ResultOf(fen) == IF IsCheckmate(fen) THEN Opposite(TurnOf(fen)) ELSE "draw"

\* The state update of an accepted move and the game-end check (the push
\* to moves is carried beside the document).
ApplyMove(d, verdict, t) ==
  LET fen == FenAfter(d.fen, verdict)
      moved == [ClockUpdate(d, t) EXCEPT !.fen = fen,
                                         !.pgn = <<SanOf(d.fen)>>,
                                         !.currentTurn = TurnOf(fen)]
  IN IF IsGameOver(fen)
       THEN [moved EXCEPT !.status = "finished", !.finishedAt = t,
                          !.result = ResultOf(fen)]
       ELSE moved

\* The counter updates of a move that ended the game, in the order awaited.
MoveStats(d) ==
  IF d.status # "finished" THEN <<>>
  ELSE IF d.result = "white" /\ d.whitePlayer # Null
    THEN <<IncOp(d.whitePlayer, 1, 1)>> \o IncIf(d.blackPlayer, 1, 0)
  ELSE IF d.result = "black" /\ d.blackPlayer # Null
    THEN <<IncOp(d.blackPlayer, 1, 1)>> \o IncIf(d.whitePlayer, 1, 0)
  ELSE IF d.result = "draw"
    THEN IncIf(d.whitePlayer, 1, 0) \o IncIf(d.blackPlayer, 1, 0)
  ELSE <<>>

\* io.to(gameId).emit('moveMade').
MoveMade(d) ==
  Emit("moveMade", "room",
       [san |-> d.pgn, fen |-> d.fen, currentTurn |-> d.currentTurn,
        status |-> d.status, result |-> d.result,
        whiteTime |-> d.whiteTime, blackTime |-> d.blackTime])

\* makeMove handlers of a session that have not returned.
MovesInFlight(gid) ==
  Cardinality({t \in Tasks : tasks[t].kind = "makeMove" /\ tasks[t].gid = gid})

\* A status check that turns away finished sessions only.
NotInProgressFinishedOnly(d) == d.status = "finished"
\* The status check of makeMove.
NotInProgress(d) == d.status # "inProgress"

\* socket.on('makeMove'): the event arrives, the document is read.
MakeMove(t, s, gid) ==
  /\ gid \in DOMAIN games => Len(games[gid].moves) + MovesInFlight(gid) < MaxMoves
  /\ Invoke(t, "makeMove", s, gid)

\* makeMove after findOne: the checks, the rule engine (answering `verdict`
\* for the submitted move on the loaded position), the update and the first
\* awaited write.
MoveValidate(t, verdict) ==
  LET T == tasks[t]
      d == T.loaded[1]
      moved == ApplyMove(d, verdict, now)
  IN /\ T.kind = "makeMove" /\ T.pc = "loaded"
     /\ UNCHANGED rooms
     /\ IF T.loaded = <<>>
          THEN Reply(t, {ErrorEmit("Game not found")}, rooms)
        ELSE IF NotInProgress(d)
          THEN Reply(t, {ErrorEmit("Game is not in progress")}, rooms)
        ELSE IF NotYourTurn(d, T.sock)
          THEN Reply(t, {ErrorEmit("Not your turn")}, rooms)
        ELSE IF ~MoveLegal(d.fen, verdict)
          THEN Reply(t, {ErrorEmit(IF verdict = "null" THEN "Invalid move"
                                   ELSE "Failed to make move")}, rooms)
        ELSE Begin(t, moved, <<SanOf(d.fen)>>, MoveStats(moved) \o <<SaveOp>>,
                   {MoveMade(moved)})

\* ---------------------------------------------------------------- resign
\* A resignation that records the resigning side as the winner.
ResignDocSelfWins(d, s, t) ==
  [d EXCEPT !.status = "finished",
            !.result = IF IsWhite(d, s) THEN "white" ELSE "black",
            !.finishedAt = t]
\* The assignments of resign: the other seat wins.
ResignDoc(d, s, t) ==
  [d EXCEPT !.status = "finished",
            !.result = IF IsWhite(d, s) THEN "black" ELSE "white",
            !.finishedAt = t]
Winner(d, s) == IF IsWhite(d, s) THEN d.blackPlayer ELSE d.whitePlayer
Loser(d, s) == IF IsWhite(d, s) THEN d.whitePlayer ELSE d.blackPlayer
\* The counter updates of resign, in the order awaited.
ResignStats(d, s) == IncIf(Winner(d, s), 1, 1) \o IncIf(Loser(d, s), 1, 0)
\* io.to(gameId).emit('gameEnded') of resign.
ResignEnded(d, s) ==
  Emit("gameEnded", "room",
       [result |-> ResignDoc(d, s, 0).result, reason |-> "resignation",
        winner |-> IF IsWhite(d, s) THEN d.blackPlayerUsername
                   ELSE d.whitePlayerUsername])

\* socket.on('resign'): the event arrives, the document is read.
Resign(t, s, gid) == Invoke(t, "resign", s, gid)

\* resign after findOne: the checks, the finalization and the save.
ResignCheck(t) ==
  LET T == tasks[t]
      d == T.loaded[1]
  IN /\ T.kind = "resign" /\ T.pc = "loaded"
     /\ UNCHANGED rooms
     /\ IF T.loaded = <<>> \/ d.status # "inProgress"
          THEN Reply(t, {ErrorEmit("Cannot resign this game")}, rooms)
        ELSE IF ~IsWhite(d, T.sock) /\ ~IsBlack(d, T.sock)
          THEN Reply(t, {ErrorEmit("You are not a player in this game")}, rooms)
        ELSE Begin(t, ResignDoc(d, T.sock, now), <<>>,
                   <<SaveOp>> \o ResignStats(d, T.sock), {ResignEnded(d, T.sock)})

\* ---------------------------------------------------------------- draw
\* A seat check that lets everyone through.
IsPlayerAnyone(d, s) == TRUE
IsPlayer(d, s) == IsWhite(d, s) \/ IsBlack(d, s)

\* socket.on('offerDraw'): the event arrives, the document is read.
OfferDraw(t, s, gid) == Invoke(t, "offerDraw", s, gid)

\* offerDraw after findOne: socket.to(gameId).emit('drawOffered'), or nothing.
OfferCheck(t) ==
  LET T == tasks[t]
      d == T.loaded[1]
  IN /\ T.kind = "offerDraw" /\ T.pc = "loaded"
     /\ UNCHANGED rooms
     /\ IF T.loaded = <<>> \/ d.status # "inProgress" \/ ~IsPlayer(d, T.sock)
          THEN Reply(t, {}, rooms)
          ELSE Reply(t, {Emit("drawOffered", "others",
                              [from |-> Username(UserOf(T.sock))])}, rooms)

\* The assignments of acceptDraw.
DrawDoc(d, t) ==
  [d EXCEPT !.status = "finished", !.result = "draw", !.finishedAt = t]
\* The counter updates of acceptDraw, in the order awaited.
DrawStats(d) == IncIf(d.whitePlayer, 1, 0) \o IncIf(d.blackPlayer, 1, 0)
\* io.to(gameId).emit('gameEnded') of acceptDraw.
DrawEnded ==
  Emit("gameEnded", "room", [result |-> "draw", reason |-> "agreement"])

\* socket.on('acceptDraw'): the event arrives, the document is read.
AcceptDraw(t, s, gid) == Invoke(t, "acceptDraw", s, gid)

\* acceptDraw after findOne: the status check, the finalization and the save.
DrawCheck(t) ==
  LET T == tasks[t]
      d == T.loaded[1]
  IN /\ T.kind = "acceptDraw" /\ T.pc = "loaded"
     /\ UNCHANGED rooms
     /\ IF T.loaded = <<>> \/ d.status # "inProgress"
          THEN Reply(t, {}, rooms)
          ELSE Begin(t, DrawDoc(d, now), <<>>, <<SaveOp>> \o DrawStats(d),
                     {DrawEnded})

\* ---------------------------------------------------------------- rejected awaits
\* What the catch block of a handler emits: the draw handlers only log.
CatchEmits(kind) ==
  CASE kind = "joinGame" -> {ErrorEmit("Failed to join game")}
    [] kind = "makeMove" -> {ErrorEmit("Failed to make move")}
    [] kind = "resign" -> {ErrorEmit("Failed to resign")}
    [] OTHER -> {}

\* Handler t, resumed with the document it read, passes its checks and goes
\* on to its first awaited write.
Proceeds(t) ==
  LET T == tasks[t]
      d == T.loaded[1]
  IN /\ T.pc = "loaded" /\ T.loaded # <<>>
     /\ CASE T.kind = "joinGame" -> NeedsSeat(d)
          [] T.kind = "makeMove" ->
               ~NotInProgress(d) /\ ~NotYourTurn(d, T.sock) /\ ~IsGameOver(d.fen)
          [] T.kind = "resign" -> d.status = "inProgress" /\ IsPlayer(d, T.sock)
          [] T.kind = "acceptDraw" -> d.status = "inProgress"
          [] OTHER -> FALSE

\* The operation handler t awaits next (its findOne, or a write) is rejected
\* by the database: the handler jumps to its catch block and returns.  A
\* joinGame that had read its document has joined the room by then.
Fails(t) ==
  LET T == tasks[t]
      joined == [rooms EXCEPT ![T.sock] = @ \cup {T.gid}]
      after == IF T.kind = "joinGame" /\ T.pc = "loaded" THEN joined ELSE rooms
  IN /\ \/ T.pc = "invoked"
        \/ T.pc = "awaiting" /\ T.todo # <<>>
        \/ Proceeds(t)
     /\ Reply(t, CatchEmits(T.kind), after)
     /\ rooms' = after

\* ---------------------------------------------------------------- useStockfish
\* A board step leaves the server and the accounts alone.
BoardStep(b, B) ==
  /\ boards' = [boards EXCEPT ![b] = B]
  /\ wire' = {}
  /\ UNCHANGED <<games, users, connected, rooms, tasks, accepted, now, invoked,
                 auth>>

\* The worker answers `isready`: setIsReady(true).
ReadyOk(b) ==
  /\ b \in DOMAIN boards
  /\ ~boards[b].ready
  /\ BoardStep(b, [boards[b] EXCEPT !.ready = TRUE])

\* What settled a promise: the worker's reply to the search of call `of`,
\* the timer of call `of`, or the not-ready test of getBestMove.
By(how, of) == [how |-> how, of |-> of]
\* A getBestMove call that posted its search: the promise is pending and the
\* 5 s timer armed.  `bot` tells a call made by makeBotMove.
NewCall(bot) == [state |-> "pending", timer |-> "armed", by |-> By("none", 0),
                 bot |-> bot]
\* A call answered at once because the worker is missing or not ready.
NullCall(bot) == [state |-> "null", timer |-> "none", by |-> By("unready", 0),
                  bot |-> bot]

\* resolveRef.current(outcome); resolveRef.current = null.  The function
\* stored is the wrapper of the call that stored it last: it clears that
\* call's timer and resolves that call's promise.  makeBotMove, resumed by a
\* move, emits makeMove.
Settle(B, outcome, by) ==
  LET r == B.resolveRef
  IN [B EXCEPT !.calls[r] =
                 [@ EXCEPT !.state = outcome,
                           !.timer = IF @ = "armed" THEN "cleared" ELSE @,
                           !.by = by],
               !.resolveRef = 0,
               !.outbox = IF outcome = "move" /\ B.calls[r].bot THEN @ + 1 ELSE @]

\* getBestMove with the worker present and isReady true: setIsThinking(true),
\* the search is posted, the timer armed and resolveRef overwritten.
Search(B, bot) ==
  [B EXCEPT !.thinking = TRUE,
            !.resolveRef = Len(B.calls) + 1,
            !.calls = Append(@, NewCall(bot)),
            !.engine = Append(@, Len(B.calls) + 1)]

\* getBestMove(fen, skillLevel), called on the hook as it stands.
GetBestMove(b) ==
  /\ b \in DOMAIN boards
  /\ Len(boards[b].calls) < MaxCalls
  /\ BoardStep(b, IF boards[b].ready
                    THEN Search(boards[b], FALSE)
                    ELSE [boards[b] EXCEPT !.calls = Append(@, NullCall(FALSE))])

\* worker.onmessage with a `bestmove` line, the answer to the oldest search
\* not answered yet; `matched` tells whether the line names a move.
BestMove(b, matched) ==
  /\ b \in DOMAIN boards
  /\ boards[b].engine # <<>>
  /\ LET B == [boards[b] EXCEPT !.engine = Tail(@), !.thinking = FALSE]
         q == Head(boards[b].engine)
     IN BoardStep(b, IF B.resolveRef # 0
                       THEN Settle(B, IF matched THEN "move" ELSE "null",
                                   By("reply", q))
                       ELSE B)

\* The timer of call k fires, 5 s after the call (timers fire in the order
\* they were set).
Timeout(b, k) ==
  /\ b \in DOMAIN boards
  /\ k \in 1..Len(boards[b].calls)
  /\ boards[b].calls[k].timer = "armed"
  /\ \A j \in 1..(k - 1) : boards[b].calls[j].timer # "armed"
  /\ LET B == [boards[b] EXCEPT !.calls[k].timer = "fired"]
     IN BoardStep(b, IF B.resolveRef # 0
                       THEN Settle([B EXCEPT !.thinking = FALSE], "null",
                                   By("timer", k))
                       ELSE B)

\* ---------------------------------------------------------------- ChessBoard
\* makeMove events the boards emitted and the server has not received.
Outgoing ==
  LET out(b) == IF b \in DOMAIN boards THEN boards[b].outbox ELSE 0
  IN out("b1") + out("b2")

\* onSquareClick completing a legal move of the position shown: makeMove is
\* emitted.  Clicks are ignored when it is not the player's turn or the
\* engine is thinking.
Click(b) ==
  /\ b \in DOMAIN boards
  /\ boards[b].turn = PlayerColor /\ ~boards[b].thinking
  /\ ~IsGameOver(boards[b].fen)
  /\ invoked + Outgoing < MaxEvents
  /\ BoardStep(b, [boards[b] EXCEPT !.outbox = @ + 1])

\* The server receives a makeMove the board emitted.
BoardMove(t, b) ==
  /\ b \in DOMAIN boards
  /\ boards[b].outbox > 0
  /\ MakeMove(t, BoardSock(b), "g1")

\* The listener of the next delivered event runs.  On moveMade in a bot
\* session with the other side to move, the engine ready and the game not
\* over, makeBotMove is scheduled.
Listen(B, e, mode) ==
  CASE e.ev = "gameEnded" -> [B EXCEPT !.ended = @ + 1]
    [] e.ev = "gameState" ->
         [B EXCEPT !.fen = e.body.fen, !.turn = e.body.currentTurn]
    [] OTHER ->
         LET shown == [B EXCEPT !.fen = e.body.fen, !.turn = e.body.currentTurn]
         IN IF /\ mode = "bot" /\ e.body.currentTurn # PlayerColor
               /\ B.ready /\ ~IsGameOver(e.body.fen)
              THEN [shown EXCEPT !.timers = Append(@, e.body.fen)]
              ELSE shown
Hear(b) ==
  /\ b \in DOMAIN boards
  /\ boards[b].inbox # <<>>
  /\ BoardStep(b, Listen([boards[b] EXCEPT !.inbox = Tail(@)],
                         Head(boards[b].inbox), games["g1"].mode))

\* The 500 ms timer fires: makeBotMove calls getBestMove, both closed over
\* the ready flag the listener saw.
MakeBotMove(b) ==
  /\ b \in DOMAIN boards
  /\ boards[b].timers # <<>>
  /\ BoardStep(b, Search([boards[b] EXCEPT !.timers = Tail(@)], TRUE))

\* ---------------------------------------------------------------- REST: register and login
\* Display names and secrets a request may carry ("" is a missing field).
Names == {"", "al", "alice", "bob"}
Secrets == {"", "pw", "secret1", "secret2"}
\* An awaited operation of the login route that may reject.
Faults == {"none", "findOne", "comparePassword"}
\* The account model stores a one-way hash of the secret, and
\* comparePassword tells whether a candidate hashes to the stored value.
Hash(secret) == <<"hash", secret>>
ComparePassword(candidate, stored) == Hash(candidate) = stored

\* res.status(status).json(...): the error message, or the token issued.
Response(status, error, token) == [status |-> status, error |-> error, token |-> token]

\* What POST /api/auth/register answers.
RegisterResponse(registered, name, secret) ==
  IF name = "" \/ secret = ""
    THEN Response(400, "Username and password are required", Null)
  ELSE IF Len(name) < 3 \/ Len(name) > 20
    THEN Response(400, "Username must be between 3 and 20 characters", Null)
  ELSE IF Len(secret) < 6
    THEN Response(400, "Password must be at least 6 characters", Null)
  ELSE IF name \in DOMAIN registered
    THEN Response(400, "Username already exists", Null)
  ELSE Response(201, Null, name)

\* POST /api/auth/register.
Register(name, secret) ==
  LET answer == RegisterResponse(auth.registered, name, secret)
  IN /\ auth' = [registered |->
                   IF answer.status = 201
                     THEN [n \in DOMAIN auth.registered \cup {name} |->
                             IF n = name THEN Hash(secret) ELSE auth.registered[n]]
                     ELSE auth.registered,
                 request |-> <<"register", name, secret>>,
                 response |-> answer]
     /\ UNCHANGED <<games, users, connected, rooms, tasks, wire, accepted, now,
                    invoked, boards>>

\* A login that tells an unknown display name from a wrong secret.
LoginResponseNamesUnknown(registered, name, secret, fault) ==
  IF name = "" \/ secret = ""
    THEN Response(400, "Username and password are required", Null)
  ELSE IF fault = "findOne" THEN Response(500, "Failed to login", Null)
  ELSE IF name \notin DOMAIN registered
    THEN Response(404, "User not found", Null)
  ELSE IF fault = "comparePassword" THEN Response(500, "Failed to login", Null)
  ELSE IF ~ComparePassword(secret, registered[name])
    THEN Response(401, "Invalid credentials", Null)
  ELSE Response(200, Null, name)
\* What POST /api/auth/login answers.
LoginResponse(registered, name, secret, fault) ==
  IF name = "" \/ secret = ""
    THEN Response(400, "Username and password are required", Null)
  ELSE IF fault = "findOne" THEN Response(500, "Failed to login", Null)
  ELSE IF name \notin DOMAIN registered
    THEN Response(401, "Invalid credentials", Null)
  ELSE IF fault = "comparePassword" THEN Response(500, "Failed to login", Null)
  ELSE IF ~ComparePassword(secret, registered[name])
    THEN Response(401, "Invalid credentials", Null)
  ELSE Response(200, Null, name)

\* POST /api/auth/login.
Login(name, secret, fault) ==
  /\ auth' = [auth EXCEPT
       !.request = <<"login", name, secret>>,
       !.response = LoginResponse(auth.registered, name, secret, fault)]
  /\ UNCHANGED <<games, users, connected, rooms, tasks, wire, accepted, now,
                 invoked, boards>>

\* ---------------------------------------------------------------- the system
\* The session events: game creation and the handlers that read or write
\* the Game and User collections.
SessionNext ==
  \/ \E g \in GameIds, c \in Creators, m \in Modes, tc \in TimeControls :
       CreateGame(g, c, m, tc)
  \/ \E t \in Tasks, s \in Sockets, g \in GameIds : JoinGame(t, s, g)
  \/ \E t \in Tasks, n \in NestedReads : JoinSeat(t, n)
  \/ \E t \in Tasks, s \in Sockets, g \in GameIds : MakeMove(t, s, g)
  \/ \E t \in Tasks, v \in Verdicts : MoveValidate(t, v)
  \/ \E t \in Tasks, s \in Sockets, g \in GameIds : Resign(t, s, g)
  \/ \E t \in Tasks : ResignCheck(t)
  \/ \E t \in Tasks, s \in Sockets, g \in GameIds : OfferDraw(t, s, g)
  \/ \E t \in Tasks : OfferCheck(t)
  \/ \E t \in Tasks, s \in Sockets, g \in GameIds : AcceptDraw(t, s, g)
  \/ \E t \in Tasks : DrawCheck(t)
  \/ \E t \in Tasks : Load(t)
  \/ \E t \in Tasks : Await(t)
  \/ \E t \in Tasks : Finish(t)

\* The three accounts have connected; no game exists yet.
InitConnected ==
  /\ games = <<>>
  /\ users = [u \in Accounts |-> [gamesPlayed |-> 0, gamesWon |-> 0]]
  /\ connected = Sockets
  /\ rooms = [s \in Sockets |-> {}]
  /\ tasks = [t \in Tasks |-> IdleTask]
  /\ wire = {}
  /\ accepted = [g \in GameIds |-> 0]
  /\ now = 0
  /\ invoked = 0
  /\ boards = NoBoards
  /\ auth = NoAuth

\* Concurrent session events of connected accounts, the wall clock standing still.
Spec == InitConnected /\ [][SessionNext]_vars

\* A multiplayer session with a time control that bob has joined: alice holds
\* the white seat, bob the black seat, both are subscribed to its room and
\* both budgets are the initial one.
TimedGame == SeatFill(NewGame("uA", "multiplayer", <<1, 1>>, 0), "uB", 0)
TimedInit ==
  /\ games = [g \in GameIds |-> TimedGame]
  /\ users = [u \in Accounts |-> [gamesPlayed |-> 0, gamesWon |-> 0]]
  /\ connected = Sockets
  /\ rooms = [s \in Sockets |-> IF s \in {"sA", "sB"} THEN GameIds ELSE {}]
  /\ tasks = [t \in Tasks |-> IdleTask]
  /\ wire = {}
  /\ accepted = [g \in GameIds |-> 0]
  /\ now = 0
  /\ invoked = 0
  /\ boards = NoBoards
  /\ auth = NoAuth

\* The moves, resignations and draw acceptances of a running session while
\* the wall clock advances.
TimedNext ==
  \/ Tick
  \/ \E t \in Tasks, s \in Sockets, g \in GameIds : MakeMove(t, s, g)
  \/ \E t \in Tasks, v \in Verdicts : MoveValidate(t, v)
  \/ \E t \in Tasks, s \in Sockets, g \in GameIds : Resign(t, s, g)
  \/ \E t \in Tasks : ResignCheck(t)
  \/ \E t \in Tasks, s \in Sockets, g \in GameIds : AcceptDraw(t, s, g)
  \/ \E t \in Tasks : DrawCheck(t)
  \/ \E t \in Tasks : Load(t)
  \/ \E t \in Tasks : Await(t)
  \/ \E t \in Tasks : Finish(t)

\* A running session with a time control, the wall clock advancing.
TimedSpec == TimedInit /\ [][TimedNext]_vars

\* The connection events: handshakes with every kind of token, disconnects
\* and leaveGame, around the joins and moves of an untimed bot session.
GatewayNext ==
  \/ \E s \in Sockets, k \in Tokens : Connect(s, k)
  \/ \E s \in Sockets : Disconnect(s)
  \/ \E s \in Sockets, g \in GameIds : LeaveGame(s, g)
  \/ \E g \in GameIds, c \in Creators : CreateGame(g, c, "bot", NoTimeControl)
  \/ \E t \in Tasks, s \in Sockets, g \in GameIds : JoinGame(t, s, g)
  \/ \E t \in Tasks, n \in NestedReads : JoinSeat(t, n)
  \/ \E t \in Tasks, s \in Sockets, g \in GameIds : MakeMove(t, s, g)
  \/ \E t \in Tasks, v \in Verdicts : MoveValidate(t, v)
  \/ \E t \in Tasks : Load(t)
  \/ \E t \in Tasks : Await(t)
  \/ \E t \in Tasks : Finish(t)

\* Connections come and go while sessions are joined and played.
GatewaySpec == Init /\ [][GatewayNext]_vars

\* A bot session of alice, joined from one tab or from two: each tab has its
\* board mounted, its socket connected and subscribed to the session's room.
BotInit ==
  /\ games = [g \in GameIds |-> NewGame("uA", "bot", NoTimeControl, 0)]
  /\ users = [u \in Accounts |-> [gamesPlayed |-> 0, gamesWon |-> 0]]
  /\ \E tabs \in {{"b1"}, Boards} :
       /\ boards = [b \in tabs |-> NewBoard]
       /\ connected = {BoardSock(b) : b \in tabs}
       /\ rooms = [s \in Sockets \cup {"sD"} |->
                     IF \E b \in tabs : BoardSock(b) = s THEN GameIds ELSE {}]
  /\ tasks = [t \in Tasks |-> IdleTask]
  /\ wire = {}
  /\ accepted = [g \in GameIds |-> 0]
  /\ now = 0
  /\ invoked = 0
  /\ auth = NoAuth

\* The human plays on the boards, the server handles the moves the boards
\* emit, and each board runs its engine.
BotNext ==
  \/ \E b \in Boards : ReadyOk(b)
  \/ \E b \in Boards : Click(b)
  \/ \E t \in Tasks, b \in Boards : BoardMove(t, b)
  \/ \E t \in Tasks, v \in Verdicts : MoveValidate(t, v)
  \/ \E t \in Tasks : Load(t)
  \/ \E t \in Tasks : Await(t)
  \/ \E t \in Tasks : Finish(t)
  \/ \E b \in Boards : Hear(b)
  \/ \E b \in Boards : MakeBotMove(b)
  \/ \E b \in Boards, m \in BOOLEAN : BestMove(b, m)
  \/ \E b \in Boards, k \in 1..MaxMoves : Timeout(b, k)

\* A bot session played from the browser.
BotSpec == BotInit /\ [][BotNext]_vars

\* One mounted board whose engine hook is called directly.
EngineInit ==
  /\ games = <<>>
  /\ users = [u \in Accounts |-> [gamesPlayed |-> 0, gamesWon |-> 0]]
  /\ boards = [b \in {"b1"} |-> NewBoard]
  /\ connected = {"sA"}
  /\ rooms = [s \in Sockets |-> {}]
  /\ tasks = [t \in Tasks |-> IdleTask]
  /\ wire = {}
  /\ accepted = [g \in GameIds |-> 0]
  /\ now = 0
  /\ invoked = 0
  /\ auth = NoAuth

EngineNext ==
  \/ \E b \in Boards : ReadyOk(b)
  \/ \E b \in Boards : GetBestMove(b)
  \/ \E b \in Boards, m \in BOOLEAN : BestMove(b, m)
  \/ \E b \in Boards, k \in 1..MaxCalls : Timeout(b, k)

\* The engine hook under direct calls, worker replies and timeouts.
EngineSpec == EngineInit /\ [][EngineNext]_vars

\* A multiplayer session without a time control that bob has joined.
PlayedGame == SeatFill(NewGame("uA", "multiplayer", NoTimeControl, 0), "uB", 0)
FaultInit ==
  /\ games = [g \in GameIds |-> PlayedGame]
  /\ users = [u \in Accounts |-> [gamesPlayed |-> 0, gamesWon |-> 0]]
  /\ connected = Sockets
  /\ rooms = [s \in Sockets |-> IF s \in {"sA", "sB"} THEN GameIds ELSE {}]
  /\ tasks = [t \in Tasks |-> IdleTask]
  /\ wire = {}
  /\ accepted = [g \in GameIds |-> 0]
  /\ now = 0
  /\ invoked = 0
  /\ boards = NoBoards
  /\ auth = NoAuth

\* The moves, resignations and draw acceptances of a running session, any
\* awaited database operation of which may be rejected.
FaultNext ==
  \/ \E t \in Tasks, s \in Sockets, g \in GameIds : MakeMove(t, s, g)
  \/ \E t \in Tasks, v \in Verdicts : MoveValidate(t, v)
  \/ \E t \in Tasks, s \in Sockets, g \in GameIds : Resign(t, s, g)
  \/ \E t \in Tasks : ResignCheck(t)
  \/ \E t \in Tasks, s \in Sockets, g \in GameIds : AcceptDraw(t, s, g)
  \/ \E t \in Tasks : DrawCheck(t)
  \/ \E t \in Tasks : Load(t)
  \/ \E t \in Tasks : Await(t)
  \/ \E t \in Tasks : Finish(t)
  \/ \E t \in Tasks : Fails(t)

\* A running session over a database that may reject operations.
FaultSpec == FaultInit /\ [][FaultNext]_vars

\* The running session of alice and bob with alice's board mounted.
WatchedInit ==
  /\ games = [g \in GameIds |-> PlayedGame]
  /\ users = [u \in Accounts |-> [gamesPlayed |-> 0, gamesWon |-> 0]]
  /\ connected = Sockets
  /\ rooms = [s \in Sockets |-> IF s \in {"sA", "sB"} THEN GameIds ELSE {}]
  /\ tasks = [t \in Tasks |-> IdleTask]
  /\ wire = {}
  /\ accepted = [g \in GameIds |-> 0]
  /\ now = 0
  /\ invoked = 0
  /\ boards = [b \in {"b1"} |-> NewBoard]
  /\ auth = NoAuth

\* The events that can end a running session, and the board's listeners.
WatchedNext ==
  \/ \E t \in Tasks, s \in Sockets, g \in GameIds : MakeMove(t, s, g)
  \/ \E t \in Tasks, v \in Verdicts : MoveValidate(t, v)
  \/ \E t \in Tasks, s \in Sockets, g \in GameIds : Resign(t, s, g)
  \/ \E t \in Tasks : ResignCheck(t)
  \/ \E t \in Tasks, s \in Sockets, g \in GameIds : AcceptDraw(t, s, g)
  \/ \E t \in Tasks : DrawCheck(t)
  \/ \E t \in Tasks : Load(t)
  \/ \E t \in Tasks : Await(t)
  \/ \E t \in Tasks : Finish(t)
  \/ \E b \in Boards : Hear(b)

\* A running session watched from a member's board.
WatchedSpec == WatchedInit /\ [][WatchedNext]_vars

\* Two sessions exist side by side in the lobby.
LobbyIds == GameIds \cup {"g2"}
\* alice created both sessions as multiplayer; all accounts are connected
\* and nobody has joined a room.
LobbyInit ==
  /\ games = [g \in LobbyIds |-> NewGame("uA", "multiplayer", NoTimeControl, 0)]
  /\ users = [u \in Accounts |-> [gamesPlayed |-> 0, gamesWon |-> 0]]
  /\ connected = Sockets
  /\ rooms = [s \in Sockets |-> {}]
  /\ tasks = [t \in Tasks |-> IdleTask]
  /\ wire = {}
  /\ accepted = [g \in LobbyIds |-> 0]
  /\ now = 0
  /\ invoked = 0
  /\ boards = NoBoards
  /\ auth = NoAuth

\* The connections of alice and bob move between the rooms of the two
\* sessions and play in them.
LobbyNext ==
  \/ \E t \in Tasks, s \in {"sA", "sB"}, g \in LobbyIds : JoinGame(t, s, g)
  \/ \E t \in Tasks, n \in NestedReads : JoinSeat(t, n)
  \/ \E s \in {"sA", "sB"}, g \in LobbyIds : LeaveGame(s, g)
  \/ \E t \in Tasks, s \in {"sA", "sB"}, g \in LobbyIds : MakeMove(t, s, g)
  \/ \E t \in Tasks, v \in Verdicts : MoveValidate(t, v)
  \/ \E t \in Tasks : Load(t)
  \/ \E t \in Tasks : Await(t)
  \/ \E t \in Tasks : Finish(t)

\* Room membership over two sessions.
LobbySpec == LobbyInit /\ [][LobbyNext]_vars

AuthNext ==
  \/ \E n \in Names, p \in Secrets : Register(n, p)
  \/ \E n \in Names, p \in Secrets, f \in Faults : Login(n, p, f)

\* Accounts are registered and logged into; no session exists.
AuthSpec == Init /\ [][AuthNext]_vars

\* ================================================================ claims
\* The session the claims are about, once created.
Live == "g1" \in DOMAIN games
G == games["g1"]
\* A makeMove handler whose move passed the checks and the rule engine.
Accepted(t) == tasks[t].kind = "makeMove" /\ tasks[t].pc = "awaiting"
\* The step is a step of handler t.
StepOf(t) == tasks'[t] # tasks[t]
ErrorAt(s, message) == [ev |-> "error", body |-> [message |-> message], to |-> {s}]
\* The account holding the seat of colour c in document d.
Seat(d, c) == IF c = "white" THEN d.whitePlayer ELSE d.blackPlayer

\* C1: side-to-move alternates with every accepted move and the stored move
\* history has one entry per accepted move, alternating white, black, ...
C1_TurnAlternates ==
  Live =>
    /\ Len(G.moves) = accepted["g1"]
    /\ G.currentTurn = (IF accepted["g1"] % 2 = 0 THEN "white" ELSE "black")
    /\ \A i \in 1..Len(G.moves) :
         G.moves[i] = (IF i % 2 = 1 THEN "white" ELSE "black")

\* C2: events of one session are processed one at a time, so two moves are
\* never both validated against, and accepted on, the same stored position.
C2_OneAtATime ==
  \A t1, t2 \in Tasks :
    t1 # t2 /\ Accepted(t1) /\ Accepted(t2)
      => tasks[t1].loaded[1].fen # tasks[t2].loaded[1].fen

\* C3: a makeMove whose caller does not hold the seat of the side to move in
\* the session it read is answered with 'Not your turn' to the caller alone
\* and changes neither the stored session nor any account.
C3_OutOfTurnRejected ==
  [][\A t \in Tasks :
       ( /\ tasks[t].kind = "makeMove" /\ tasks[t].pc = "loaded"
         /\ tasks[t].loaded # <<>>
         /\ tasks[t].loaded[1].status = "inProgress"
         /\ Seat(tasks[t].loaded[1], tasks[t].loaded[1].currentTurn)
              # UserOf(tasks[t].sock)
         /\ StepOf(t) )
       => /\ games' = games
          /\ users' = users
          /\ accepted' = accepted
          /\ wire' = {ErrorAt(tasks[t].sock, "Not your turn")}
          /\ tasks'[t] = IdleTask]_vars
\* The opponent moved out of turn, and an account in no seat moved.
C3_Witness ==
  /\ Live /\ G.status = "inProgress" /\ G.blackPlayer = "uB"
  /\ G.currentTurn = "black" /\ G.moves = <<"white">>
  /\ wire = {ErrorAt("sA", "Not your turn")}

\* The two seats of the session are held by the accounts of handlers t1, t2.
BothSeats(t1, t2) ==
  /\ Live
  /\ UserOf(tasks[t1].sock) # UserOf(tasks[t2].sock)
  /\ {UserOf(tasks[t1].sock), UserOf(tasks[t2].sock)} = {G.whitePlayer, G.blackPlayer}

\* C4 as claimed: when both seats submit a makeMove while the session has
\* accepted the same number of moves (so one of them is out of turn when it
\* submits), the two are never both accepted.
C4_NeverBothAccepted ==
  \A t1, t2 \in Tasks :
    BothSeats(t1, t2) /\ tasks[t1].since = tasks[t2].since
      => ~(Accepted(t1) /\ Accepted(t2))
\* C4 as amended: makeMove handlers of different accounts that read the same
\* stored session are never both accepted (the one out of turn in what it
\* read is rejected); an out-of-turn submission whose handler reads the
\* session only after the other seat's move was saved is in turn by then and
\* may be accepted as well.
C4_SameReadOneAccepted ==
  \A t1, t2 \in Tasks :
    Accepted(t1) /\ Accepted(t2) /\ tasks[t1].loaded = tasks[t2].loaded
      => UserOf(tasks[t1].sock) = UserOf(tasks[t2].sock)
\* Both seats read the same session; white's move was accepted and black's
\* handler is about to be turned away.
C4_Witness ==
  \E t1, t2 \in Tasks :
    /\ BothSeats(t1, t2)
    /\ Accepted(t1) /\ UserOf(tasks[t1].sock) = G.whitePlayer
    /\ tasks[t2].kind = "makeMove" /\ tasks[t2].pc = "loaded"
    /\ tasks[t2].loaded = tasks[t1].loaded
    /\ accepted["g1"] = 1

\* C5: once the stored status is finished or aborted, no step changes it.
C5_TerminalStatusStays ==
  [][Live /\ G.status \in {"finished", "aborted"}
       => games'["g1"].status = G.status]_vars

\* C6: once the stored status is finished, no step changes the stored
\* position, move history or result.
C6_FinishedIsFrozen ==
  [][Live /\ G.status = "finished"
       => /\ games'["g1"].fen = G.fen
          /\ games'["g1"].moves = G.moves
          /\ games'["g1"].result = G.result]_vars

\* C7: the stored result is set if and only if the stored status is finished.
C7_ResultIffFinished == Live => (G.result # Null <=> G.status = "finished")

\* C8: with the two seats held by different accounts (or the black seat by
\* the automated opponent), one session adds at most one game to any
\* account's gamesPlayed and credits at most one win in all.
C8_FinalizedOnce ==
  Live /\ G.whitePlayer # G.blackPlayer
    => /\ \A u \in Accounts : users[u].gamesPlayed <= 1
       /\ \A u, v \in Accounts :
            users[u].gamesWon + (IF u # v THEN users[v].gamesWon ELSE 0) <= 1

\* A gameEnded event with the given reason is on the wire.
Ended(reason) == {e \in wire : e.ev = "gameEnded" /\ e.body.reason = reason}
Colours == {"white", "black"}

\* C9 as claimed: when a resignation is announced, the session is finished
\* with the announced result, the account of the winning seat has a win and
\* the accounts of both seats have a game played, in every mode.
C9_ResignCreditsBoth ==
  \A e \in Ended("resignation") :
    /\ \E u \in Accounts : u = Seat(G, e.body.result) /\ users[u].gamesWon >= 1
    /\ \A c \in Colours :
         \E u \in Accounts : u = Seat(G, c) /\ users[u].gamesPlayed >= 1

\* The colour of the seat the caller of handler t resigns from, in the
\* session it read.
ResignerColour(t) ==
  IF tasks[t].loaded[1].whitePlayer = UserOf(tasks[t].sock) THEN "white" ELSE "black"
\* The increments a seat's account is due: none when the seat has no account.
Due(d, c, won) ==
  IF Seat(d, c) \in Accounts
    THEN <<[op |-> "inc", id |-> Seat(d, c), played |-> 1, won |-> won]>>
    ELSE <<>>
\* C9 as amended: a resign from a seated account in an inProgress session
\* stores status finished and the other seat's colour as result (a result the
\* session already carried is not rewritten) and announces that result; it
\* then adds one gamesWon and one gamesPlayed to the account of the winning
\* seat and one gamesPlayed to the account of the resigning seat, each in one
\* update.  A seat held by the automated opponent has no account: a human who
\* resigns a bot session gets one gamesPlayed and nobody gets a win.
C9_ResignCreditsSeats ==
  [][\A t \in Tasks :
       /\ ( /\ tasks[t].kind = "resign" /\ tasks[t].pc = "loaded"
            /\ tasks[t].loaded # <<>>
            /\ tasks[t].loaded[1].status = "inProgress"
            /\ UserOf(tasks[t].sock) \in {tasks[t].loaded[1].whitePlayer,
                                          tasks[t].loaded[1].blackPlayer}
            /\ StepOf(t) )
          => LET d == tasks[t].loaded[1]
                 other == Opposite(ResignerColour(t))
             IN /\ games'["g1"].status = "finished"
                /\ d.result # other => games'["g1"].result = other
                /\ \A e \in tasks'[t].emits :
                     e.ev = "gameEnded" /\ e.body.result = other
                /\ tasks'[t].emits # {}
                /\ tasks'[t].todo = Due(d, other, 1) \o Due(d, ResignerColour(t), 0)
                /\ users' = users
       /\ ( /\ tasks[t].kind = "resign" /\ tasks[t].pc = "awaiting"
            /\ tasks[t].todo # <<>>
            /\ StepOf(t) )
          => LET op == Head(tasks[t].todo)
             IN /\ users'[op.id].gamesPlayed = users[op.id].gamesPlayed + op.played
                /\ users'[op.id].gamesWon = users[op.id].gamesWon + op.won
                /\ \A u \in Accounts \ {op.id} : users'[u] = users[u]
                /\ games' = games]_vars
\* The human resigned a bot session: the resignation is announced, the
\* human has one game played and nobody has a win.
C9_Witness ==
  /\ Live /\ G.mode = "bot" /\ G.status = "finished" /\ G.result = "black"
  /\ Ended("resignation") # {}
  /\ users["uA"] = [gamesPlayed |-> 1, gamesWon |-> 0]
  /\ \A u \in Accounts : users[u].gamesWon = 0

\* C10: an accepted acceptDraw stores status finished and result draw and
\* issues one gamesPlayed increment, without a win, for each account that
\* holds a seat.
C10_DrawCountsEachOnce ==
  [][\A t \in Tasks :
       ( /\ tasks[t].kind = "acceptDraw" /\ tasks[t].pc = "loaded"
         /\ tasks[t].loaded # <<>>
         /\ tasks[t].loaded[1].status = "inProgress"
         /\ StepOf(t) )
       => LET d == tasks[t].loaded[1]
              seated == {d.whitePlayer, d.blackPlayer} \cap Accounts
              ops == tasks'[t].todo
          IN /\ games'["g1"].status = "finished"
             /\ games'["g1"].result = "draw"
             /\ Len(ops) = Cardinality(seated)
             /\ {ops[i].id : i \in 1..Len(ops)} = seated
             /\ \A i \in 1..Len(ops) : ops[i].played = 1 /\ ops[i].won = 0]_vars

\* Handler t, of the given kind, resumes after reading the session.
Checks(t, kind) ==
  /\ tasks[t].kind = kind /\ tasks[t].pc = "loaded"
  /\ tasks[t].loaded # <<>>
  /\ StepOf(t)
\* The account of handler t holds a seat of the stored session.
Seated(t) == UserOf(tasks[t].sock) \in {G.whitePlayer, G.blackPlayer}

\* C11: an acceptDraw from an account that holds no seat of the session
\* leaves the session and all account statistics unchanged, at that step and
\* at every later step of the handler.
C11_DrawNeedsSeat ==
  [][\A t \in Tasks :
       (tasks[t].kind = "acceptDraw" /\ Live /\ ~Seated(t) /\ StepOf(t))
       => games' = games /\ users' = users]_vars

\* C12: a joinGame from the account in the white seat of a waiting session
\* changes nothing in the stored session.
C12_CreatorOnlyResubscribes ==
  [][\A t \in Tasks :
       ( /\ Checks(t, "joinGame")
         /\ G.status = "waiting"
         /\ UserOf(tasks[t].sock) = G.whitePlayer )
       => /\ games' = games
          /\ games'["g1"].whitePlayer # games'["g1"].blackPlayer]_vars

\* C13: a joinGame from another account than the creator, on a session that
\* is still waiting with an empty black seat, stores status inProgress, the
\* joiner in the black seat and the start time, and with a time control both
\* budgets at initial * 1000 and the last-move time.
C13_JoinStartsSession ==
  [][\A t \in Tasks :
       ( /\ Checks(t, "joinGame")
         /\ G.status = "waiting" /\ G.blackPlayer = Null
         /\ UserOf(tasks[t].sock) # G.whitePlayer )
       => LET after == games'["g1"]
          IN /\ after.status = "inProgress"
             /\ after.blackPlayer = UserOf(tasks[t].sock)
             /\ after.startedAt = now
             /\ G.timeControl # NoTimeControl
                  => /\ after.whiteTime = G.timeControl[1] * 1000
                     /\ after.blackTime = G.timeControl[1] * 1000
                     /\ after.lastMoveTime = now]_vars

\* C14: a joinGame from an account in neither seat of a session whose seats
\* are both filled is answered with an error and changes nothing stored.
C14_ThirdJoinRejected ==
  [][\A t \in Tasks :
       ( /\ Checks(t, "joinGame")
         /\ G.whitePlayer # Null /\ G.blackPlayer # Null
         /\ ~Seated(t) )
       => /\ games' = games
          /\ \E e \in wire' : e.ev = "error" /\ e.to = {tasks[t].sock}]_vars

\* C15: a filled black seat is never reassigned, a session that left waiting
\* never has its start re-stamped, and it never returns to waiting.
C15_SeatedOnce ==
  [][(Live /\ G.blackPlayer # Null)
       => /\ games'["g1"].blackPlayer = G.blackPlayer
          /\ games'["g1"].blackPlayerUsername = G.blackPlayerUsername
          /\ games'["g1"].startedAt = G.startedAt
          /\ games'["g1"].status # "waiting"]_vars

\* The remaining budget of colour c in a record that carries both budgets.
Budget(d, c) == IF c = "white" THEN d.whiteTime ELSE d.blackTime
\* Handler t's move is accepted in this step.
Accepts(t) == Checks(t, "makeMove") /\ tasks'[t].pc = "awaiting"
\* Milliseconds between the last-move time handler t read and now.
Elapsed(t) == (now - tasks[t].loaded[1].lastMoveTime) * 1000

\* C16: the budget an accepted move announces for the mover is
\* max(0, previous remaining - elapsed + increment * 1000).
C16_ClockFormula ==
  [][\A t \in Tasks :
       (Accepts(t) /\ tasks[t].loaded[1].timeControl # NoTimeControl)
       => LET d == tasks[t].loaded[1]
              due == Budget(d, d.currentTurn) - Elapsed(t) + d.timeControl[2] * 1000
          IN \A e \in tasks'[t].emits :
               Budget(e.body, d.currentTurn) = (IF due >= 0 THEN due ELSE 0)]_vars

\* C17: both stored budgets are never negative; a step that changes a stored
\* budget is the save of a move, changes only the budget of the side that
\* moved and raises it by no more than the increment; the stored last-move
\* time never goes back.
C17_BudgetsBounded ==
  [][LET after == games'["g1"]
     IN /\ after.whiteTime >= 0 /\ after.blackTime >= 0
        /\ after.lastMoveTime >= G.lastMoveTime
        /\ (after.whiteTime # G.whiteTime \/ after.blackTime # G.blackTime)
             => \E t \in Tasks :
                  LET mover == tasks[t].loaded[1].currentTurn
                  IN /\ tasks[t].kind = "makeMove" /\ StepOf(t)
                     /\ Budget(after, Opposite(mover)) = Budget(G, Opposite(mover))
                     /\ Budget(after, mover)
                          <= Budget(G, mover) + G.timeControl[2] * 1000]_vars

\* C18: a makeMove from the side to move whose budget is exhausted (0, or not
\* more than the time elapsed since the last move) is not accepted: position
\* and history stay and the session is stored finished, won by the opponent.
C18_FlagFalls ==
  [][\A t \in Tasks :
       ( /\ Checks(t, "makeMove")
         /\ tasks[t].loaded[1].status = "inProgress"
         /\ Seat(tasks[t].loaded[1], tasks[t].loaded[1].currentTurn)
              = UserOf(tasks[t].sock)
         /\ tasks[t].loaded[1].timeControl # NoTimeControl
         /\ Elapsed(t) >= Budget(tasks[t].loaded[1], tasks[t].loaded[1].currentTurn) )
       => /\ ~Accepts(t)
          /\ games'["g1"].fen = G.fen /\ games'["g1"].moves = G.moves
          /\ games'["g1"].status = "finished"
          /\ games'["g1"].result = Opposite(tasks[t].loaded[1].currentTurn)]_vars

\* C19: a session without a time control stores no budget and no last-move
\* time, whatever events it has been through.
C19_UntimedHasNoClock ==
  (Live /\ G.timeControl = NoTimeControl)
  => G.whiteTime = Absent /\ G.blackTime = Absent /\ G.lastMoveTime = Absent
\* A bot session without a time control that was joined, moved in and
\* finished.
C19_Witness ==
  /\ Live /\ G.timeControl = NoTimeControl /\ G.mode = "bot"
  /\ "g1" \in rooms["sA"]
  /\ Len(G.moves) >= 1 /\ G.status = "finished"
  /\ G.lastMoveTime = Absent

\* The result the claim gives a move by `mover` with that report.
Outcome(over, mover) == IF over = "mate" THEN mover ELSE "draw"
\* C20: an accepted move on which the rule engine reports game over
\* announces and stores status finished, with the mover's colour as result
\* for checkmate and draw otherwise (a result the session already carried
\* with that value is not rewritten); a move that leaves the game open
\* announces the status and result it read and its save changes neither.
C20_GameOverFinishes ==
  [][\A t \in Tasks :
       /\ Accepts(t)
          => LET d == tasks[t].loaded[1]
                 over == tasks'[t].delta.fen.over
             IN \A e \in tasks'[t].emits :
                  IF over = "no"
                    THEN e.body.status = d.status /\ e.body.result = d.result
                    ELSE /\ e.body.status = "finished"
                         /\ e.body.result = Outcome(over, d.currentTurn)
       /\ (tasks[t].kind = "makeMove" /\ StepOf(t) /\ accepted' # accepted)
          => LET d == tasks[t].loaded[1]
                 over == tasks'[t].delta.fen.over
             IN IF over = "no"
                  THEN /\ games'["g1"].status = G.status
                       /\ games'["g1"].result = G.result
                  ELSE /\ games'["g1"].status = "finished"
                       /\ d.result # Outcome(over, d.currentTurn)
                            => games'["g1"].result = Outcome(over, d.currentTurn)]_vars
\* Black was checkmated: the move is announced and stored as a win for white.
C20_Witness ==
  /\ Live /\ G.status = "finished" /\ G.result = "white"
  /\ G.fen.over = "mate" /\ G.moves = <<"white">>
  /\ \E e \in wire : /\ e.ev = "moveMade"
                     /\ e.body.status = "finished" /\ e.body.result = "white"

\* Handler t answers the caller with the one error `message`, returns, and
\* leaves sessions, statistics and the count of accepted moves alone.
Refused(t, message) ==
  /\ games' = games /\ users' = users /\ accepted' = accepted
  /\ wire' = {ErrorAt(tasks[t].sock, message)}
  /\ tasks'[t] = IdleTask

\* C21: a makeMove that read a session whose status is not inProgress is
\* answered 'Game is not in progress' to the caller and changes nothing,
\* whoever the caller is.
C21_IdleSessionRefusesMoves ==
  [][\A t \in Tasks :
       (Checks(t, "makeMove") /\ tasks[t].loaded[1].status # "inProgress")
       => Refused(t, "Game is not in progress")]_vars
\* A move was sent to a session with no move yet that is finished or still
\* waiting.
C21_Witness ==
  /\ Live /\ G.status \in {"finished", "waiting"} /\ G.moves = <<>>
  /\ \E s \in Sockets : wire = {ErrorAt(s, "Game is not in progress")}

\* C22: a makeMove of the side to move that the rule engine turns down (no
\* move returned, or an exception) is answered with one error to the caller
\* and changes nothing stored.
C22_IllegalMoveRefused ==
  [][\A t \in Tasks :
       ( /\ Checks(t, "makeMove")
         /\ tasks[t].loaded[1].status = "inProgress"
         /\ Seat(tasks[t].loaded[1], tasks[t].loaded[1].currentTurn)
              = UserOf(tasks[t].sock)
         /\ ~Accepts(t) )
       => \/ Refused(t, "Invalid move")
          \/ Refused(t, "Failed to make move")]_vars
\* The rule engine threw on white's move from the starting position while
\* another connection was in the room.
C22_Witness ==
  /\ Live /\ G.status = "inProgress" /\ G.moves = <<>> /\ G.fen = StartFen
  /\ "g1" \in rooms["sB"]
  /\ wire = {ErrorAt("sA", "Failed to make move")}

\* C23: the stored move history has even length exactly when white is to
\* move.
C23_ParityMatchesTurn ==
  Live => ((Len(G.moves) % 2 = 0) <=> (G.currentTurn = "white"))

\* C24: a resign that found no session, read one that is not inProgress, or
\* comes from an account in neither seat, is answered with one error to the
\* caller and changes no session and no statistics.
C24_ResignNeedsSeat ==
  [][\A t \in Tasks :
       (tasks[t].kind = "resign" /\ tasks[t].pc = "loaded" /\ StepOf(t))
       => /\ (tasks[t].loaded = <<>> \/ tasks[t].loaded[1].status # "inProgress")
               => Refused(t, "Cannot resign this game")
          /\ ( /\ tasks[t].loaded # <<>>
               /\ tasks[t].loaded[1].status = "inProgress"
               /\ UserOf(tasks[t].sock) \notin {tasks[t].loaded[1].whitePlayer,
                                                tasks[t].loaded[1].blackPlayer} )
               => Refused(t, "You are not a player in this game")]_vars
\* Bob, in no seat of alice's running bot session, tried to resign it.
C24_Witness ==
  /\ Live /\ G.mode = "bot" /\ G.status = "inProgress" /\ G.result = Null
  /\ wire = {ErrorAt("sB", "You are not a player in this game")}
  /\ \A u \in Accounts : users[u].gamesPlayed = 0

\* C25: no step of an offerDraw handler changes a session or a statistic,
\* and the handler emits nothing unless the session it read is inProgress and
\* the caller holds one of its seats.
C25_OfferChangesNothing ==
  [][\A t \in Tasks :
       (tasks[t].kind = "offerDraw" /\ StepOf(t))
       => /\ games' = games /\ users' = users /\ accepted' = accepted
          /\ ( \/ tasks[t].pc # "loaded"
               \/ tasks[t].loaded = <<>>
               \/ tasks[t].loaded[1].status # "inProgress"
               \/ UserOf(tasks[t].sock) \notin {tasks[t].loaded[1].whitePlayer,
                                                tasks[t].loaded[1].blackPlayer} )
               => wire' = {}]_vars
\* Alice offered a draw in her running session: the offer is on its way and
\* nothing was stored.
C25_Witness ==
  /\ Live /\ G.status = "inProgress" /\ G.result = Null
  /\ \E e \in wire : e.ev = "drawOffered" /\ e.body.from = "alice" /\ e.to # {}
  /\ \A u \in Accounts : users[u].gamesPlayed = 0

\* C26: a draw offer reaches only connections of the account in the seat
\* opposite the offering one.
C26_OfferToOpponentOnly ==
  \A e \in wire :
    e.ev = "drawOffered"
    => \A s \in e.to :
         /\ UserOf(s) \in {G.whitePlayer, G.blackPlayer}
         /\ Username(UserOf(s)) # e.body.from

\* The events the handlers send to a session's room.
Broadcasts == {"moveMade", "gameEnded", "playerJoined", "drawOffered"}
\* The connected sockets subscribed to the session's room.
Members == {s \in connected : "g1" \in rooms[s]}

\* C27: a disconnect and a leaveGame change no session and no statistic;
\* after either the socket is not in the session's room, and every broadcast
\* goes to sockets that are in the room when it is sent.
C27_LeavingChangesNothing ==
  [][/\ \A s \in Sockets :
          /\ Disconnect(s)
               => games' = games /\ users' = users /\ rooms'[s] = {}
          /\ \A g \in GameIds :
               LeaveGame(s, g)
                 => games' = games /\ users' = users /\ g \notin rooms'[s]
     /\ \A e \in wire' :
          e.ev \in Broadcasts
            => e.to \subseteq {s \in connected' : "g1" \in rooms'[s]}]_vars
\* Alice made a move and her connection is gone: the session goes on without
\* a result, and the move is announced to carol in the room and not to bob,
\* who is connected and outside the room.
C27_Witness ==
  /\ Live /\ connected = {"sB", "sC"}
  /\ G.status = "inProgress" /\ G.result = Null
  /\ Members = {"sC"}
  /\ \E e \in wire : e.ev = "moveMade" /\ e.to = {"sC"}

\* C28: a handshake without a token or with an invalid one is answered
\* with an error and admits no connection, and every handler, leaveGame
\* included, starts for an admitted connection.
C28_HandshakeGuardsHandlers ==
  [][/\ \A s \in Sockets, k \in Tokens \ {"good"} :
          Connect(s, k)
            => /\ s \notin connected'
               /\ \E e \in wire' : e.ev = "connect_error" /\ e.to = {s}
     /\ \A s \in Sockets, g \in GameIds : LeaveGame(s, g) => s \in connected
     /\ \A t \in Tasks :
          (tasks[t].pc = "idle" /\ tasks'[t].pc # "idle")
            => tasks'[t].sock \in connected]_vars
\* Bob's handshake was just refused while a handler runs for alice's
\* admitted connection.
C28_Witness ==
  /\ "sB" \notin connected /\ "sA" \in connected
  /\ \E e \in wire : e.ev = "connect_error" /\ e.to = {"sB"}
  /\ \E t \in Tasks : tasks[t].sock = "sA" /\ tasks[t].pc = "loaded"

\* The session is created in this step.
Created == "g1" \notin DOMAIN games /\ "g1" \in DOMAIN games'
\* What creation stores in both modes: the creator in the white seat, the
\* starting position, no move, white to move, no result.
FreshSession(n) ==
  /\ n.whitePlayer \in Creators
  /\ n.whitePlayerUsername = Username(n.whitePlayer)
  /\ n.fen = StartFen /\ n.moves = <<>>
  /\ n.currentTurn = "white" /\ n.result = Null

C30_BotMoveAccepted ==
  [][\A t \in Tasks :
       ( /\ Checks(t, "makeMove")
         /\ G.mode = "bot"
         /\ tasks[t].loaded[1].status = "inProgress"
         /\ tasks[t].loaded[1].currentTurn = "black" )
       => wire' # {ErrorAt(tasks[t].sock, "Not your turn")}]_vars

\* The accepted moves of the human seat, and the engine searches started on
\* all boards.
RECURSIVE CountOf(_, _)
CountOf(seq, x) ==
  IF seq = <<>> THEN 0
  ELSE (IF Head(seq) = x THEN 1 ELSE 0) + CountOf(Tail(seq), x)
HumanMoves == CountOf(G.moves, PlayerColor)
Cycles ==
  LET n(b) == IF b \in DOMAIN boards THEN Len(boards[b].calls) ELSE 0
  IN n("b1") + n("b2")
\* Every broadcast has been handled by every board and no handler or timer
\* is pending.
Settled ==
  /\ \A t \in Tasks : IsIdle(t)
  /\ \A b \in DOMAIN boards :
       boards[b].inbox = <<>> /\ boards[b].timers = <<>> /\ boards[b].outbox = 0

\* C31: in a bot session the engine searches started never outnumber the
\* accepted moves of the human seat, and once every broadcast is handled
\* each accepted human move has had its one search.
C31_OneCyclePerMove ==
  Live /\ G.mode = "bot"
    => /\ Cycles <= HumanMoves
       /\ Settled => Cycles = HumanMoves

\* C32: a getBestMove call whose 5 s have passed (its timer fired), or that
\* found the engine not ready, is no longer pending; and a call that
\* resolves with null submits no makeMove and leaves the stored session as
\* it is.
C32_BoundedWait ==
  [][\A b \in DOMAIN boards :
       LET old == boards[b].calls
           new == boards'[b].calls
       IN /\ \A k \in 1..Len(new) :
               new[k].timer \in {"fired", "none"} => new[k].state # "pending"
          /\ \A k \in 1..Len(old) :
               (old[k].state = "pending" /\ new[k].state = "null")
                 => boards'[b].outbox = boards[b].outbox /\ games' = games]_vars

\* Handler t turns its event down in this step: the session is unknown,
\* its status is wrong for the event, the caller holds no seat (resign,
\* offerDraw), moves out of turn, or the rule engine refuses the move.
Rejects(t) ==
  /\ tasks[t].pc = "loaded" /\ StepOf(t)
  /\ \/ tasks[t].loaded = <<>>
     \/ /\ tasks[t].loaded # <<>>
        /\ LET d == tasks[t].loaded[1]
               caller == UserOf(tasks[t].sock)
           IN \/ tasks[t].kind # "joinGame" /\ d.status # "inProgress"
              \/ /\ tasks[t].kind \in {"resign", "offerDraw"}
                 /\ caller \notin {d.whitePlayer, d.blackPlayer}
              \/ tasks[t].kind = "makeMove" /\ Seat(d, d.currentTurn) # caller
              \/ tasks[t].kind = "makeMove" /\ ~Accepts(t)

\* C33: an event that is turned down is answered with an error notice, sent
\* to the caller and to nobody else, and nothing else is emitted; a joinGame
\* for an unknown session adds the caller to no room.
C33_RejectionsNotified ==
  [][\A t \in Tasks :
       Rejects(t)
       => /\ wire' # {}
          /\ \A e \in wire' : e.ev = "error" /\ e.to = {tasks[t].sock}
          /\ tasks[t].kind = "joinGame" => rooms' = rooms]_vars

\* The login of `name` with `secret` cannot succeed: no such account, or
\* another secret.
BadCredentials(name, secret) ==
  /\ name # "" /\ secret # ""
  /\ \/ name \notin DOMAIN auth.registered
     \/ /\ name \in DOMAIN auth.registered
        /\ auth.registered[name] # Hash(secret)

\* C34: a login with an unknown display name and a login with a wrong
\* secret are answered alike: the answer to any login that cannot succeed
\* is 401 'Invalid credentials' without a token, the very answer every other
\* such login would get.
C34_SameGenericFailure ==
  [][\A n \in Names, p \in Secrets :
       (Login(n, p, "none") /\ BadCredentials(n, p))
       => /\ auth'.response = Response(401, "Invalid credentials", Null)
          /\ \A n2 \in Names, p2 \in Secrets :
               BadCredentials(n2, p2)
                 => auth'.response
                      = LoginResponse(auth.registered, n2, p2, "none")]_vars
\* alice is registered; a login as alice with another secret has just
\* failed.
C34_Witness ==
  /\ "alice" \in DOMAIN auth.registered
  /\ auth.registered["alice"] = Hash("secret1")
  /\ auth.request = <<"login", "alice", "secret2">>
  /\ auth.response.status = 401

\* The stored session is at least as new as what broadcast e announces: the
\* position is not behind the announced one, and an announced end or start
\* of the session is stored.
AsNewAs(stored, e) ==
  CASE e.ev = "moveMade" ->
         /\ stored.fen.ply >= e.body.fen.ply
         /\ e.body.status = "finished" => stored.status = "finished"
    [] e.ev = "gameEnded" -> stored.status = "finished" /\ stored.result # Null
    [] e.ev = "playerJoined" ->
         e.body.status = "inProgress" => stored.status # "waiting"
    [] OTHER -> TRUE

\* C35: a handler broadcasts only after all it awaits, its save included,
\* has taken effect, and when a broadcast is emitted the stored session is at
\* least as new as the broadcast.
C35_SavedBeforeBroadcast ==
  [][/\ \A t \in Tasks :
          (StepOf(t) /\ \E e \in wire' : e.ev \in Broadcasts)
            => tasks[t].todo = <<>>
     /\ \A e \in wire' :
          e.ev \in Broadcasts => AsNewAs(games'["g1"], e)]_vars

\* No handler is in flight.
Quiet == \A t \in Tasks : IsIdle(t)
\* The accounts in the seats of the stored session.
SeatedAccounts == {G.whitePlayer, G.blackPlayer} \cap Accounts

\* C36: once the handlers of a session have returned, failed or not, a
\* session that is still inProgress has changed no account's gamesPlayed or
\* gamesWon, and a session stored as finished has been counted for each of
\* its seated accounts.
C36_FailedEventChangesNothing ==
  (Live /\ Quiet)
    => /\ G.status = "inProgress"
            => \A u \in Accounts : users[u] = [gamesPlayed |-> 0, gamesWon |-> 0]
       /\ G.status = "finished"
            => \A u \in SeatedAccounts : users[u].gamesPlayed >= 1

\* Handler t, having awaited all its writes, makes its emits in this step.
Announces(t) == tasks[t].pc = "awaiting" /\ tasks[t].todo = <<>> /\ StepOf(t)

\* C37: a resign or acceptDraw handler that stored the session finished
\* broadcasts gameEnded with the stored result to the members of the room,
\* a member is told of the end of a session once, and the moveMade of a
\* move that finished the session carries status finished and the result.
C37_EndAnnouncedOnce ==
  [][/\ \A t \in Tasks :
          (Announces(t) /\ tasks[t].kind \in {"resign", "acceptDraw"})
            => \E e \in wire' :
                 /\ e.ev = "gameEnded" /\ e.to = Members
                 /\ e.body.result = games'["g1"].result
     /\ \A t \in Tasks :
          ( /\ Announces(t) /\ tasks[t].kind = "makeMove"
            /\ "status" \in DOMAIN tasks[t].delta )
            => \E e \in wire' :
                 /\ e.ev = "moveMade" /\ e.body.status = "finished"
                 /\ e.body.result \in Colours \cup {"draw"}
     /\ \A b \in DOMAIN boards : boards'[b].ended <= 1]_vars

\* C38: a connection is in at most one session's room, and a broadcast to
\* the room of a session reaches only connections subscribed to that session
\* alone.
C38_OneRoomPerConnection ==
  [][/\ \A s \in Sockets : Cardinality(rooms'[s]) <= 1
     /\ \A t \in Tasks :
          (tasks[t].pc \in {"loaded", "awaiting"} /\ tasks'[t] = IdleTask)
            => \A e \in wire' : \A s \in e.to \ {tasks[t].sock} :
                 rooms'[s] = {tasks[t].gid}]_vars

\* A step of a joinGame handler for a stored bot session.
JoinsBot(t) ==
  /\ StepOf(t)
  /\ "joinGame" \in {tasks[t].kind, tasks'[t].kind}
  /\ LET g == IF tasks[t].kind = "joinGame" THEN tasks[t].gid ELSE tasks'[t].gid
     IN g \in DOMAIN games /\ games[g].mode = "bot"

\* C39: no step of a joinGame handler changes a stored bot session, and a
\* bot session is never waiting, its black seat is never given to an account
\* and its black display name stays Stockfish.
C39_BotSessionUntouchedByJoin ==
  [][/\ \A t \in Tasks : JoinsBot(t) => games' = games
     /\ \A g \in DOMAIN games' :
          games'[g].mode = "bot"
            => /\ games'[g].status # "waiting"
               /\ games'[g].blackPlayer = Null
               /\ games'[g].blackPlayerUsername = "Stockfish"]_vars
\* bob and carol have joined the room of alice's bot session, and bob's
\* joinGame has just been answered.
C39_Witness ==
  /\ "g1" \in DOMAIN games /\ games["g1"].mode = "bot"
  /\ games["g1"].whitePlayer = "uA"
  /\ {"sB", "sC"} \subseteq Members
  /\ \E e \in wire : e.ev = "playerJoined" /\ e.body.username = "bob"

\* C40: on every hook, a promise that was settled by an engine reply or a
\* timer was settled by the reply or the timer of its own call, a promise
\* still pending is the one resolveRef can still resolve, and isThinking is
\* false when no call is pending.
C40_EachCallItsOwnOutcome ==
  \A b \in DOMAIN boards :
    LET B == boards[b]
    IN /\ \A k \in 1..Len(B.calls) :
            /\ B.calls[k].by.how \in {"reply", "timer"} => B.calls[k].by.of = k
            /\ B.calls[k].state = "pending" => B.resolveRef = k
       /\ (\A k \in 1..Len(B.calls) : B.calls[k].state # "pending")
            => ~B.thinking

====
